---- MODULE Spec2Model ----
(***************************************************************************)
(* Project Arovi: the workflow orchestration core of arovi_agent.          *)
(*                                                                         *)
(*   - _extract_json_block   (agents.py)  : SpecExtract                    *)
(*   - _filter_and_dedupe_items_impl (tools.py) : SpecDedupe               *)
(*   - arovi_workflow_agent  (agents.py)  : Spec (the pipeline)            *)
(*                                                                         *)
(* A text is a sequence of one-character strings.  In the pipeline a JSON  *)
(* member ("key": value) is one lexeme of the text, decoded by the parser  *)
(* operators; braces, backticks and prose stay single characters, so the   *)
(* extractor works on the same texts in every specification.               *)
(***************************************************************************)
EXTENDS Integers, Sequences, FiniteSets, TLC

VARIABLES
    ex_text,    \* the argument of _extract_json_block
    ex_out,     \* its result
    ex_out2,    \* the result of applying it to its own result
    ex_pc,      \* "in" -> "once" -> "twice"
    dd_items,   \* the items argument of _filter_and_dedupe_items_impl
    dd_min,     \* its min_relevance_len argument
    dd_res,     \* its result
    dd_pc,      \* "in" -> "done"
    dc_items,   \* the list object passed to every call of the call sequence
    dc_orig,    \* history: that list as it was before the first call
    dc_min,     \* the min_relevance_len of the calls
    dc_other,   \* the items of the call made in between
    dc_seen,    \* the set seen as the most recent call left it
    dc_first,   \* the result of the first call
    dc_second,  \* the result of the call repeated after the one in between
    dc_self,    \* the result of the call on the first filtered_items
    dc_pc,      \* "in" -> "first" -> "between" -> "second" -> "self"
    mt_tagged,  \* session.state.get("tagged_items") when metrics_agent starts
    mt_risk,    \* session.state.get("risk_report") when metrics_agent starts
    mt_other,   \* whether session.state holds any other key
    mt_summary, \* session.state.get("metrics_summary")
    mt_pc,      \* "in" -> "done" | "raised"
    cli_args,    \* the arguments state, country and date_str of run_arovi_once
    cli_message, \* the user message it sends to the runner
    cli_final,   \* the briefing keys of session.state after the run
    cli_printed, \* what it prints under FINAL AROVI BRIEFING
    cli_pc,      \* "in" -> "ran" -> "printed"
    rq_n,        \* requests made so far through a front end
    rq_front,    \* the front end of the current request: "cli" | "web"
    rq_sid,      \* the id of the session of the current request
    rq_store,    \* the sessions of the session service in use: id -> state
    rq_start,    \* history: the session state the current run started in
    rq_written,  \* history: the keys written by the runs of earlier requests
    rq_briefing, \* the briefing the front end selected
    rq_last,     \* st.session_state["last_briefing"]
    rq_shown,    \* what the page shows under Daily Briefing
    rq_pc,       \* "idle" -> "created" -> "ran" -> "selected" -> "idle"
    state,        \* session.state: key -> <<>> (absent) or <<value>>
    stage,        \* index of the running sub-agent of arovi_workflow_agent
    running,      \* the LLM agents that were invoked and have not answered yet
    br,           \* ingestion branch -> "idle" | "running" | "done"
    times_looped, \* completed iterations of risk_loop_agent
    loop_idx,     \* index of the next sub-agent of risk_loop_agent
    started,      \* history: the workflow stages in the order they began
    completed,    \* history: the workflow stages in the order they completed
    runs,         \* history: loop sub-agent -> number of completed runs
    emitted,      \* history: ingestion branch -> what its oracle returned
    writers       \* history: key -> the agents that wrote it

exVars == <<ex_text, ex_out, ex_out2, ex_pc>>
ddVars == <<dd_items, dd_min, dd_res, dd_pc>>
dcVars == <<dc_items, dc_orig, dc_min, dc_other, dc_seen, dc_first, dc_second,
            dc_self, dc_pc>>
mtVars == <<mt_tagged, mt_risk, mt_other, mt_summary, mt_pc>>
cliVars == <<cli_args, cli_message, cli_final, cli_printed, cli_pc>>
rqVars == <<rq_n, rq_front, rq_sid, rq_store, rq_start, rq_written, rq_briefing,
            rq_last, rq_shown, rq_pc>>
fnVars == <<dcVars, mtVars, cliVars, rqVars>>
wfVars == <<state, stage, running, br, times_looped, loop_idx,
            started, completed, runs, emitted, writers>>

----------------------------------------------------------------------------
(* Bounds *)

MaxPieces == 6
MaxItems == 2
MaxRequests == 2

----------------------------------------------------------------------------
(* Texts and the Python str primitives *)

\* the backtick character (written ^: a backtick cannot appear in a TLA+ string)
BT == "^"
LB == "{"
RB == "}"

EmptyObject == <<LB, RB>>

\* An optional value: <<>> is an absent key (or None), <<v>> a key holding v.
NoValue == <<>>
Str(s) == <<s>>

\* three backticks start at index i of t
FenceAt(t, i) ==
    /\ i + 2 <= Len(t)
    /\ t[i] = BT /\ t[i + 1] = BT /\ t[i + 2] = BT

\* the fence marker occurs in text
HasFence(t) == \E i \in 1..Len(t) : FenceAt(t, i)

\* text.split(fence): leftmost, non-overlapping separators
RECURSIVE SplitFrom(_, _, _)
SplitFrom(t, i, cur) ==
    IF i > Len(t) THEN <<cur>>
    ELSE IF FenceAt(t, i) THEN <<cur>> \o SplitFrom(t, i + 3, <<>>)
    ELSE SplitFrom(t, i + 1, Append(cur, t[i]))

SplitFence(t) == SplitFrom(t, 1, <<>>)

\* a plausible slip: fence.join(parts[1:-1]) keeps the interior fence markers
RECURSIVE JoinPartsKeepFences(_)
JoinPartsKeepFences(parts) ==
    IF parts = <<>> THEN <<>>
    ELSE IF Len(parts) = 1 THEN Head(parts)
    ELSE Head(parts) \o <<BT, BT, BT>> \o JoinPartsKeepFences(Tail(parts))

\* "".join(parts)
RECURSIVE JoinParts(_)
JoinParts(parts) ==
    IF parts = <<>> THEN <<>> ELSE Head(parts) \o JoinParts(Tail(parts))

\* text.find(c), 1-based; 0 stands for the Python -1
Find(t, c) ==
    IF \E i \in 1..Len(t) : t[i] = c
    THEN CHOOSE i \in 1..Len(t) : t[i] = c /\ \A j \in 1..(i - 1) : t[j] # c
    ELSE 0

\* text.rfind(c), 1-based; 0 stands for the Python -1
RFind(t, c) ==
    IF \E i \in 1..Len(t) : t[i] = c
    THEN CHOOSE i \in 1..Len(t) : t[i] = c /\ \A j \in (i + 1)..Len(t) : t[j] # c
    ELSE 0

\* a plausible slip: parts[0] (the text before a lone fence) instead of parts[-1]
StripFencesFirstPart(t) ==
    IF HasFence(t)
    THEN LET parts == SplitFence(t)
         IN  IF Len(parts) >= 3
             THEN JoinParts(SubSeq(parts, 2, Len(parts) - 1))
             ELSE parts[1]
    ELSE t

\* the fence-stripping step: parts[1:-1] joined, or parts[-1]
StripFences(t) ==
    IF HasFence(t)
    THEN LET parts == SplitFence(t)
         IN  IF Len(parts) >= 3
             THEN JoinParts(SubSeq(parts, 2, Len(parts) - 1))
             ELSE parts[Len(parts)]
    ELSE t

\* a plausible slip: text[start:end] drops the closing brace
BraceSliceOpen(t) ==
    LET start == Find(t, LB)
        end   == RFind(t, RB)
    IN  IF start = 0 \/ end = 0 \/ end <= start
        THEN EmptyObject
        ELSE SubSeq(t, start, end - 1)

\* the brace step: text[start : end + 1], or "{}"
BraceSlice(t) ==
    LET start == Find(t, LB)
        end   == RFind(t, RB)
    IN  IF start = 0 \/ end = 0 \/ end <= start
        THEN EmptyObject
        ELSE SubSeq(t, start, end)

\* _extract_json_block
ExtractJsonBlock(text) ==
    IF text = <<>> THEN EmptyObject
    ELSE BraceSlice(StripFences(text))

----------------------------------------------------------------------------
(* agents.py: the agents, their output keys and the composition *)

Branches ==
    {"global_ingestion_agent", "us_ingestion_agent",
     "state_ingestion_agent", "city_ingestion_agent"}

\* ingestion_parallel_agent.sub_agents are joined when every branch is done;
\* a plausible slip: the join fires as soon as one branch is done
SomeBranchDone(status) == \E b \in Branches : status[b] = "done"

AllBranchesDone(status) == \A b \in Branches : status[b] = "done"

\* a plausible slip: a copy-pasted output_key in us_ingestion_agent
OutputKeyCopyPaste(agent) ==
    CASE agent = "global_ingestion_agent" -> "items_global_raw"
      [] agent = "us_ingestion_agent" -> "items_global_raw"
      [] agent = "state_ingestion_agent" -> "items_state_raw"
      [] agent = "city_ingestion_agent" -> "items_city_raw"
      [] agent = "classification_agent" -> "tagged_items_raw"
      [] agent = "trend_agent" -> "trend_notes_raw"
      [] agent = "drafting_agent" -> "briefing_draft"
      [] agent = "risk_checker_agent" -> "risk_report_raw"
      [] agent = "redraft_agent" -> "briefing_revised"

\* LlmAgent(output_key=...)
OutputKey(agent) ==
    CASE agent = "global_ingestion_agent" -> "items_global_raw"
      [] agent = "us_ingestion_agent" -> "items_us_raw"
      [] agent = "state_ingestion_agent" -> "items_state_raw"
      [] agent = "city_ingestion_agent" -> "items_city_raw"
      [] agent = "classification_agent" -> "tagged_items_raw"
      [] agent = "trend_agent" -> "trend_notes_raw"
      [] agent = "drafting_agent" -> "briefing_draft"
      [] agent = "risk_checker_agent" -> "risk_report_raw"
      [] agent = "redraft_agent" -> "briefing_revised"

Keys ==
    {"items_global_raw", "items_us_raw", "items_state_raw", "items_city_raw",
     "tagged_items_raw", "tagged_items", "trend_notes_raw", "trend_notes",
     "briefing_draft", "risk_report_raw", "risk_report", "briefing_revised",
     "metrics_summary"}

\* a plausible slip: the parser listed after the stage that reads its output
WorkflowParserLate ==
    <<"ingestion_parallel_agent", "classification_agent", "trend_agent",
      "tagged_items_parser_agent", "trend_notes_parser_agent", "drafting_agent",
      "risk_loop_agent", "metrics_agent">>

\* arovi_workflow_agent.sub_agents
Workflow ==
    <<"ingestion_parallel_agent", "classification_agent", "tagged_items_parser_agent",
      "trend_agent", "trend_notes_parser_agent", "drafting_agent",
      "risk_loop_agent", "metrics_agent">>

\* a plausible slip: the check stage listed last, after the revise stage
LoopSubAgentsCheckLast ==
    <<"risk_report_parser_agent", "redraft_agent", "risk_checker_agent">>

\* a plausible slip: the revise stage listed before the check stage
LoopSubAgentsRedraftFirst ==
    <<"redraft_agent", "risk_checker_agent", "risk_report_parser_agent">>

\* risk_loop_agent.sub_agents
LoopSubAgents == <<"risk_checker_agent", "risk_report_parser_agent", "redraft_agent">>

\* risk_loop_agent.max_iterations
max_iterations == 2

WorkflowInit ==
    /\ state = [k \in Keys |-> NoValue]
    /\ stage = 1
    /\ running = {}
    /\ br = [b \in Branches |-> "idle"]
    /\ times_looped = 0
    /\ loop_idx = 1
    /\ started = <<>>
    /\ completed = <<>>
    /\ runs = [i \in 1..Len(LoopSubAgents) |-> 0]
    /\ emitted = [b \in Branches |-> NoValue]
    /\ writers = [k \in Keys |-> {}]

\* the workflow is not part of the function specifications: it never starts
WorkflowIdle ==
    /\ state = [k \in Keys |-> NoValue]
    /\ stage = 0
    /\ running = {}
    /\ br = [b \in Branches |-> "idle"]
    /\ times_looped = 0
    /\ loop_idx = 1
    /\ started = <<>>
    /\ completed = <<>>
    /\ runs = [i \in 1..Len(LoopSubAgents) |-> 0]
    /\ emitted = [b \in Branches |-> NoValue]
    /\ writers = [k \in Keys |-> {}]

----------------------------------------------------------------------------
(* SpecExtract: _extract_json_block on every text of up to MaxPieces pieces *)

Pieces == {<<BT, BT, BT>>, <<BT>>, <<LB>>, <<RB>>, <<"x">>}

RECURSIVE TextsOf(_)
TextsOf(n) ==
    IF n = 0 THEN {<<>>}
    ELSE LET shorter == TextsOf(n - 1)
         IN  shorter \cup {t \o p : t \in shorter, p \in Pieces}

ExTexts == TextsOf(MaxPieces)

ExtractIdle ==
    /\ ex_text = <<>>
    /\ ex_out = <<>>
    /\ ex_out2 = <<>>
    /\ ex_pc = "idle"

DedupeIdle ==
    /\ dd_items = <<>>
    /\ dd_min = 0
    /\ dd_res = [filtered_items |-> <<>>, filtered_count |-> 0, original_count |-> 0]
    /\ dd_pc = "idle"

EmptyResult == [filtered_items |-> <<>>, filtered_count |-> 0, original_count |-> 0]

CallsIdle ==
    /\ dc_items = <<>>
    /\ dc_orig = <<>>
    /\ dc_min = 0
    /\ dc_other = <<>>
    /\ dc_seen = {}
    /\ dc_first = EmptyResult
    /\ dc_second = EmptyResult
    /\ dc_self = EmptyResult
    /\ dc_pc = "idle"

MetricsIdle ==
    /\ mt_tagged = <<>>
    /\ mt_risk = <<>>
    /\ mt_other = FALSE
    /\ mt_summary = <<>>
    /\ mt_pc = "idle"

CliIdle ==
    /\ cli_args = [state |-> <<>>, country |-> <<>>, date_str |-> <<>>]
    /\ cli_message = <<>>
    /\ cli_final = [briefing_revised |-> <<>>, briefing_draft |-> <<>>]
    /\ cli_printed = <<>>
    /\ cli_pc = "idle"

RequestsIdle ==
    /\ rq_n = 0
    /\ rq_front = "none"
    /\ rq_sid = <<"none", 0>>
    /\ rq_store = <<>>
    /\ rq_start = <<>>
    /\ rq_written = {}
    /\ rq_briefing = <<>>
    /\ rq_last = <<>>
    /\ rq_shown = <<>>
    /\ rq_pc = "off"

\* the specifications of the other functions never start
FunctionsIdle == CallsIdle /\ MetricsIdle /\ CliIdle /\ RequestsIdle

InitExtract ==
    /\ ex_text \in ExTexts
    /\ ex_out = <<>>
    /\ ex_out2 = <<>>
    /\ ex_pc = "in"
    /\ DedupeIdle
    /\ WorkflowIdle
    /\ FunctionsIdle

Extract ==
    /\ ex_pc = "in"
    /\ ex_out' = ExtractJsonBlock(ex_text)
    /\ ex_pc' = "once"
    /\ UNCHANGED <<ex_text, ex_out2, ddVars, wfVars, fnVars>>

ReExtract ==
    /\ ex_pc = "once"
    /\ ex_out2' = ExtractJsonBlock(ex_out)
    /\ ex_pc' = "twice"
    /\ UNCHANGED <<ex_text, ex_out, ddVars, wfVars, fnVars>>

NextExtract == Extract \/ ReExtract

vars == <<exVars, ddVars, wfVars, fnVars>>

SpecExtract == InitExtract /\ [][NextExtract]_vars

----------------------------------------------------------------------------
(* _filter_and_dedupe_items_impl (tools.py) *)

\* An item is a record of optional strings: NoValue is a missing (or None)
\* field, Str(s) a field holding the string s.

\* item.get(f) or ""
GetOrEmpty(item, f) == IF item[f] = NoValue THEN <<>> ELSE item[f][1]

IsSpace(c) == c = " "

\* str.strip()
RECURSIVE LStrip(_)
LStrip(s) == IF s # <<>> /\ IsSpace(Head(s)) THEN LStrip(Tail(s)) ELSE s

RECURSIVE RStrip(_)
RStrip(s) ==
    IF s # <<>> /\ IsSpace(s[Len(s)]) THEN RStrip(SubSeq(s, 1, Len(s) - 1)) ELSE s

Strip(s) == RStrip(LStrip(s))

\* str.lower()
LowerChar(c) ==
    CASE c = "X" -> "x"
      [] c = "C" -> "c"
      [] c = "S" -> "s"
      [] c = "M" -> "m"
      [] OTHER -> c

Lower(s) == [i \in 1..Len(s) |-> LowerChar(s[i])]

\* a plausible slip: key = (region, title) without lower()
DedupeKeyCaseSensitive(region, title) == <<region, title>>

\* key = (region.lower(), title.lower())
DedupeKey(region, title) == <<Lower(region), Lower(title)>>

\* a plausible slip: the key is reserved before the validity checks
DedupeStepReserveFirst(acc, item, min_relevance_len) ==
    LET title     == Strip(GetOrEmpty(item, "title"))
        region    == Strip(GetOrEmpty(item, "region"))
        relevance == Strip(GetOrEmpty(item, "public_health_relevance"))
        key       == DedupeKey(region, title)
    IN  IF key \in acc.seen THEN acc
        ELSE IF title = <<>> \/ region = <<>>
             THEN [acc EXCEPT !.seen = @ \cup {key}]
        ELSE IF Len(relevance) < min_relevance_len
             THEN [acc EXCEPT !.seen = @ \cup {key}]
        ELSE [seen |-> acc.seen \cup {key}, filtered |-> Append(acc.filtered, item)]

\* a plausible slip: filtered.insert(0, item) in place of filtered.append(item)
DedupeStepPrepend(acc, item, min_relevance_len) ==
    LET title     == Strip(GetOrEmpty(item, "title"))
        region    == Strip(GetOrEmpty(item, "region"))
        relevance == Strip(GetOrEmpty(item, "public_health_relevance"))
        key       == DedupeKey(region, title)
    IN  IF title = <<>> \/ region = <<>> THEN acc
        ELSE IF Len(relevance) < min_relevance_len THEN acc
        ELSE IF key \in acc.seen THEN acc
        ELSE [seen |-> acc.seen \cup {key}, filtered |-> <<item>> \o acc.filtered]

\* one iteration of the for loop over items
DedupeStep(acc, item, min_relevance_len) ==
    LET title     == Strip(GetOrEmpty(item, "title"))
        region    == Strip(GetOrEmpty(item, "region"))
        relevance == Strip(GetOrEmpty(item, "public_health_relevance"))
        key       == DedupeKey(region, title)
    IN  IF title = <<>> \/ region = <<>> THEN acc
        ELSE IF Len(relevance) < min_relevance_len THEN acc
        ELSE IF key \in acc.seen THEN acc
        ELSE [seen |-> acc.seen \cup {key}, filtered |-> Append(acc.filtered, item)]

RECURSIVE DedupeLoop(_, _, _)
DedupeLoop(items, acc, min_relevance_len) ==
    IF items = <<>> THEN acc
    ELSE DedupeLoop(Tail(items), DedupeStep(acc, Head(items), min_relevance_len),
                    min_relevance_len)

\* a plausible slip: seen kept at module level, so never emptied
FreshSeenKept(last_seen) == last_seen

\* seen = set(): a local of the call, whatever an earlier call left behind
FreshSeen(last_seen) == {}

\* One call, given the set seen as the previous call left it.  The loop only
\* reads items and appends to the new list filtered, so the list object that
\* was passed holds the same items afterwards.
DedupeCall(items, min_relevance_len, last_seen) ==
    LET acc == DedupeLoop(items, [seen |-> FreshSeen(last_seen), filtered |-> <<>>],
                          min_relevance_len)
    IN  [result |-> [filtered_items |-> acc.filtered,
                     filtered_count |-> Len(acc.filtered),
                     original_count |-> Len(items)],
         seen   |-> acc.seen,
         items  |-> items]

FilterAndDedupeItemsImpl(items, min_relevance_len) ==
    DedupeCall(items, min_relevance_len, {}).result

----------------------------------------------------------------------------
(* SpecDedupe: the filter on every list of up to MaxItems items *)

DdTitles == {NoValue, Str(<<"x">>), Str(<<" ", "X">>)}
DdRegions == {Str(<<" ">>), Str(<<"c">>), Str(<<"C", " ">>), Str(<<"s">>)}
DdRelevances == {Str(<<"r">>), Str(<<"r", "r", " ">>)}
DdUrls == {Str(<<"u">>), Str(<<"v">>)}
MinRelevanceLens == {0, 1, 2, 3}

DdItems ==
    [title : DdTitles, region : DdRegions,
     public_health_relevance : DdRelevances, url : DdUrls]

DdLists == UNION {[1..n -> DdItems] : n \in 0..MaxItems}

InitDedupe ==
    /\ dd_items \in DdLists
    /\ dd_min \in MinRelevanceLens
    /\ dd_res = [filtered_items |-> <<>>, filtered_count |-> 0, original_count |-> 0]
    /\ dd_pc = "in"
    /\ ExtractIdle
    /\ WorkflowIdle
    /\ FunctionsIdle

ApplyDedupe ==
    /\ dd_pc = "in"
    /\ dd_res' = FilterAndDedupeItemsImpl(dd_items, dd_min)
    /\ dd_pc' = "done"
    /\ UNCHANGED <<dd_items, dd_min, exVars, wfVars, fnVars>>

NextDedupe == ApplyDedupe

SpecDedupe == InitDedupe /\ [][NextDedupe]_vars

----------------------------------------------------------------------------
(* SpecDedupeCalls: a sequence of calls of the filter in one process: a     *)
(* call, any call in between, the first call again, then a call on the      *)
(* filtered_items of the first.                                             *)

CallItems == {item \in DdItems : item.url = Str(<<"u">>)}

CallLists == UNION {[1..n -> CallItems] : n \in 0..MaxItems}

ItemCX ==
    [title |-> Str(<<"x">>), region |-> Str(<<"c">>),
     public_health_relevance |-> Str(<<"r", "r", " ">>), url |-> Str(<<"u">>)]

ItemSX == [ItemCX EXCEPT !.region = Str(<<"s">>)]

BetweenLists == {<<>>, <<ItemCX>>, <<ItemSX, ItemCX>>}

InitDedupeCalls ==
    /\ dc_items \in CallLists
    /\ dc_orig = dc_items
    /\ dc_min \in MinRelevanceLens
    /\ dc_other = <<>>
    /\ dc_seen = {}
    /\ dc_first = EmptyResult
    /\ dc_second = EmptyResult
    /\ dc_self = EmptyResult
    /\ dc_pc = "in"
    /\ ExtractIdle
    /\ DedupeIdle
    /\ WorkflowIdle
    /\ MetricsIdle
    /\ CliIdle
    /\ RequestsIdle

CallFirst ==
    /\ dc_pc = "in"
    /\ LET call == DedupeCall(dc_items, dc_min, dc_seen)
       IN  /\ dc_first' = call.result
           /\ dc_seen' = call.seen
           /\ dc_items' = call.items
    /\ dc_pc' = "first"
    /\ UNCHANGED <<dc_orig, dc_min, dc_other, dc_second, dc_self, exVars, ddVars, wfVars, mtVars, cliVars, rqVars>>

CallBetween ==
    /\ dc_pc = "first"
    /\ \E other \in BetweenLists :
          /\ dc_other' = other
          /\ dc_seen' = DedupeCall(other, dc_min, dc_seen).seen
    /\ dc_pc' = "between"
    /\ UNCHANGED <<dc_items, dc_orig, dc_min, dc_first, dc_second, dc_self,
                   exVars, ddVars, wfVars, mtVars, cliVars, rqVars>>

CallSecond ==
    /\ dc_pc = "between"
    /\ LET call == DedupeCall(dc_items, dc_min, dc_seen)
       IN  /\ dc_second' = call.result
           /\ dc_seen' = call.seen
           /\ dc_items' = call.items
    /\ dc_pc' = "second"
    /\ UNCHANGED <<dc_orig, dc_min, dc_other, dc_first, dc_self, exVars, ddVars, wfVars, mtVars, cliVars, rqVars>>

CallOnFiltered ==
    /\ dc_pc = "second"
    /\ LET call == DedupeCall(dc_first.filtered_items, dc_min, dc_seen)
       IN  /\ dc_self' = call.result
           /\ dc_seen' = call.seen
    /\ dc_pc' = "self"
    /\ UNCHANGED <<dc_items, dc_orig, dc_min, dc_other, dc_first, dc_second,
                   exVars, ddVars, wfVars, mtVars, cliVars, rqVars>>

NextDedupeCalls == CallFirst \/ CallBetween \/ CallSecond \/ CallOnFiltered

SpecDedupeCalls == InitDedupeCalls /\ [][NextDedupeCalls]_vars

----------------------------------------------------------------------------
(* JSON as the parser stages see it.                                       *)
(* A JSON object text is '{', member lexemes, '}'.  A member lexeme stands *)
(* for one well-formed "key": value pair; MemberOf decodes it.  A value is *)
(* [kind, val]: val is the string of a "str", the element names of a       *)
(* "list" (decoded by ItemObject / IssueObject), the literal of the rest.  *)

JStr(s) == [kind |-> "str", val |-> s]
JList(names) == [kind |-> "list", val |-> names]
JBool(b) == [kind |-> "bool", val |-> <<b>>]

LongRelevance == [i \in 1..40 |-> "r"]

ItemFields ==
    {"region", "title", "source", "url", "published_date", "summary",
     "topic", "sentiment", "public_health_relevance"}

ItemWith(region, title, url, relevance) ==
    [f \in ItemFields |->
        CASE f = "region" -> Str(JStr(region))
          [] f = "title" -> Str(JStr(title))
          [] f = "url" -> Str(JStr(url))
          [] f = "public_health_relevance" -> Str(JStr(relevance))
          [] f = "topic" -> Str(JStr(<<"other">>))
          [] f = "sentiment" -> Str(JStr(<<"neutral">>))
          [] OTHER -> Str(JStr(<<"s">>))]

\* the JSON objects the list elements stand for
ItemObject(name) ==
    CASE name = "A" -> ItemWith(<<"c", "i", "t", "y">>, <<"X">>, <<"u">>, LongRelevance)
      [] name = "a" -> ItemWith(<<"C", "i", "t", "y">>, <<"x">>, <<"v">>, LongRelevance)
      [] name = "S" -> ItemWith(<<"s", "t", "a", "t", "e">>, <<"s">>, <<"u">>, <<"r">>)
      [] name = "Mars" -> ItemWith(<<"M", "a", "r", "s">>, <<"m">>, <<"u">>, LongRelevance)
      [] name = "NoTitle" ->
            [ItemWith(<<"c", "i", "t", "y">>, <<"X">>, <<"u">>, LongRelevance)
                EXCEPT !["title"] = NoValue]
      [] name = "NumTitle" ->
            [ItemWith(<<"c", "i", "t", "y">>, <<"X">>, <<"u">>, LongRelevance)
                EXCEPT !["title"] = Str([kind |-> "num", val |-> <<"7">>])]

ItemNames == {"A", "a", "S", "Mars", "NoTitle", "NumTitle"}

JsonKeys ==
    {"items", "key_trends", "risks", "positive_developments",
     "notes_for_briefing_writer", "is_safe", "issues", "high_level_feedback"}

\* the member a lexeme stands for
MemberOf(tok) ==
    CASE tok = "items:[A]" -> [key |-> "items", value |-> JList(<<"A">>)]
      [] tok = "items:[A,a]" -> [key |-> "items", value |-> JList(<<"A", "a">>)]
      [] tok = "items:[A,NoTitle]" -> [key |-> "items", value |-> JList(<<"A", "NoTitle">>)]
      [] tok = "items:[NumTitle]" -> [key |-> "items", value |-> JList(<<"NumTitle">>)]
      [] tok = "items:[Mars,S]" -> [key |-> "items", value |-> JList(<<"Mars", "S">>)]
      [] tok = "items:str" -> [key |-> "items", value |-> JStr(<<"s">>)]
      [] tok = "key_trends:[t]" -> [key |-> "key_trends", value |-> JList(<<"t">>)]
      [] tok = "key_trends:str" -> [key |-> "key_trends", value |-> JStr(<<"t">>)]
      [] tok = "risks:[r]" -> [key |-> "risks", value |-> JList(<<"r">>)]
      [] tok = "notes:n" -> [key |-> "notes_for_briefing_writer", value |-> JStr(<<"n">>)]
      [] tok = "is_safe:true" -> [key |-> "is_safe", value |-> JBool("true")]
      [] tok = "is_safe:false" -> [key |-> "is_safe", value |-> JBool("false")]
      [] tok = "is_safe:str" -> [key |-> "is_safe", value |-> JStr(<<"y">>)]
      [] tok = "issues:[]" -> [key |-> "issues", value |-> JList(<<>>)]
      [] tok = "issues:[political]" -> [key |-> "issues", value |-> JList(<<"political">>)]
      [] tok = "issues:[political,gossip]" ->
            [key |-> "issues", value |-> JList(<<"political", "gossip">>)]
      [] tok = "issues:str" -> [key |-> "issues", value |-> JStr(<<"i">>)]
      [] tok = "feedback:f" -> [key |-> "high_level_feedback", value |-> JStr(<<"f">>)]

MemberLexemes ==
    {"items:[A]", "items:[A,a]", "items:[A,NoTitle]", "items:[NumTitle]",
     "items:[Mars,S]", "items:str", "key_trends:[t]", "key_trends:str", "risks:[r]",
     "notes:n", "is_safe:true", "is_safe:false", "is_safe:str", "issues:[]",
     "issues:[political]", "issues:[political,gossip]", "issues:str", "feedback:f"}

EmptyDict == [k \in JsonKeys |-> NoValue]

\* the dict of a member sequence; a repeated key keeps its last value
RECURSIVE DictOf(_, _)
DictOf(members, d) ==
    IF members = <<>> THEN d
    ELSE LET m == MemberOf(Head(members))
         IN  DictOf(Tail(members), [d EXCEPT ![m.key] = Str(m.value)])

\* json.loads of an extracted block: ok iff the block is '{' members '}'
JsonLoads(block) ==
    LET inner == SubSeq(block, 2, Len(block) - 1)
    IN  IF /\ Len(block) >= 2
           /\ block[1] = LB
           /\ block[Len(block)] = RB
           /\ \A i \in 1..Len(inner) : inner[i] \in MemberLexemes
        THEN [ok |-> TRUE, obj |-> DictOf(inner, EmptyDict)]
        ELSE [ok |-> FALSE, obj |-> EmptyDict]

----------------------------------------------------------------------------
(* models.py: NewsItem, NewsItemList, TrendNotes *)

\* NewsItem: nine required str fields
NewsItemValid(name) ==
    /\ name \in ItemNames
    /\ \A f \in ItemFields :
          /\ ItemObject(name)[f] # NoValue
          /\ ItemObject(name)[f][1].kind = "str"

\* NewsItem.model_dump()
NewsItemDump(name) == [f \in ItemFields |-> ItemObject(name)[f][1].val]

\* a plausible slip: invalid items are skipped instead of failing the list
NewsItemListValidateLenient(obj) ==
    IF obj["items"] = NoValue THEN [ok |-> TRUE, data |-> [items |-> <<>>]]
    ELSE IF obj["items"][1].kind # "list" THEN [ok |-> FALSE, data |-> [items |-> <<>>]]
    ELSE LET names == SelectSeq(obj["items"][1].val, NewsItemValid)
         IN  [ok |-> TRUE,
              data |-> [items |-> [i \in 1..Len(names) |-> NewsItemDump(names[i])]]]

\* NewsItemList.model_validate(...).model_dump(): items defaults to []
NewsItemListValidate(obj) ==
    IF obj["items"] = NoValue THEN [ok |-> TRUE, data |-> [items |-> <<>>]]
    ELSE IF obj["items"][1].kind # "list" THEN [ok |-> FALSE, data |-> [items |-> <<>>]]
    ELSE LET names == obj["items"][1].val
         IN  IF \A i \in 1..Len(names) : NewsItemValid(names[i])
             THEN [ok |-> TRUE,
                   data |-> [items |-> [i \in 1..Len(names) |-> NewsItemDump(names[i])]]]
             ELSE [ok |-> FALSE, data |-> [items |-> <<>>]]

EmptyTrendNotes ==
    [key_trends |-> <<>>, risks |-> <<>>, positive_developments |-> <<>>,
     notes_for_briefing_writer |-> <<>>]

\* a List[str] field with default []: its elements are strings
StrListOk(obj, k) == obj[k] = NoValue \/ obj[k][1].kind = "list"
StrListOf(obj, k) ==
    IF obj[k] = NoValue THEN <<>>
    ELSE [i \in 1..Len(obj[k][1].val) |-> <<obj[k][1].val[i]>>]

\* TrendNotes.model_validate(...).model_dump()
TrendNotesValidate(obj) ==
    IF /\ StrListOk(obj, "key_trends")
       /\ StrListOk(obj, "risks")
       /\ StrListOk(obj, "positive_developments")
       /\ (obj["notes_for_briefing_writer"] = NoValue
            \/ obj["notes_for_briefing_writer"][1].kind = "str")
    THEN [ok |-> TRUE,
          data |-> [key_trends |-> StrListOf(obj, "key_trends"),
                    risks |-> StrListOf(obj, "risks"),
                    positive_developments |-> StrListOf(obj, "positive_developments"),
                    notes_for_briefing_writer |->
                        IF obj["notes_for_briefing_writer"] = NoValue THEN <<>>
                        ELSE obj["notes_for_briefing_writer"][1].val]]
    ELSE [ok |-> FALSE, data |-> EmptyTrendNotes]

----------------------------------------------------------------------------
(* What the oracle may answer.  NoValue: the final response has no content, *)
(* so the LlmAgent leaves its output_key alone.                            *)

Fence == <<BT, BT, BT>>

IngestionTagged(b) == <<LB, b, RB>>
IngestionTexts(b) == {<<"x">>, IngestionTagged(b)}

TaggedGood == <<"x">> \o Fence \o <<LB, "items:[A]", RB>> \o Fence
TaggedDuplicates == <<LB, "items:[A,a]", RB>>
TaggedForeignRegion == <<LB, "items:[Mars,S]", RB>>
TaggedMalformed == <<LB, LB, "items:[A]", RB>>
TaggedMissingField == <<LB, "items:[A,NoTitle]", RB>>
TaggedWrongType == <<LB, "items:str", RB>>
TaggedWrongFieldType == <<LB, "items:[NumTitle]", RB>>

ClassificationTexts ==
    {TaggedGood, TaggedDuplicates, TaggedForeignRegion, TaggedMalformed,
     TaggedMissingField, TaggedWrongType, TaggedWrongFieldType}

TrendGood == Fence \o <<LB, "key_trends:[t]", "risks:[r]", "notes:n", RB>> \o Fence
TrendMalformed == <<LB, "key_trends:[t]", "x", RB>>
TrendWrongType == <<LB, "key_trends:str", RB>>

TrendTexts == {TrendGood, TrendMalformed, TrendWrongType}

DraftTexts == {<<"draft">>}

RiskSafe == <<LB, "is_safe:true", "issues:[]", "feedback:f", RB>>
RiskUnsafe == Fence \o <<LB, "is_safe:false", "issues:[political,gossip]", RB>> \o Fence
RiskMalformed == <<LB, "is_safe:true", RB, RB, "x">>
RiskOffSchema == <<LB, "is_safe:str", "issues:str", RB>>

RiskTexts == {RiskSafe, RiskUnsafe, RiskMalformed, RiskOffSchema}

\* the revise stage of iteration n (1-based) answers with a text of its own
RevisedText(n) == <<"revised", n>>

OracleAnswers(texts) == {NoValue} \cup {Str(t) : t \in texts}

----------------------------------------------------------------------------
(* session.state *)

Has(st, k) == st[k] # NoValue

\* state.get(k) or ""
GetOrEmptyText(st, k) == IF Has(st, k) THEN st[k][1] ELSE <<>>

\* an LlmAgent commits its answer under its output_key (state_delta)
CommitAnswer(st, agent, answer) ==
    IF answer = NoValue THEN st ELSE [st EXCEPT ![OutputKey(agent)] = answer]

WritersAfterAnswer(w, agent, answer) ==
    IF answer = NoValue THEN w
    ELSE [w EXCEPT ![OutputKey(agent)] = @ \cup {agent}]

\* state = context.session.state or {};  state[k] = v
\* an empty session.state is falsy: the write then lands in a fresh dict
\* a plausible slip: the stage's result assigned as a new state dict
AssignKeyAsNewState(st, k, v) ==
    IF \A j \in Keys : ~Has(st, j) THEN st
    ELSE [j \in Keys |-> IF j = k THEN Str(v) ELSE NoValue]

AssignKey(st, k, v) ==
    IF \A j \in Keys : ~Has(st, j) THEN st ELSE [st EXCEPT ![k] = Str(v)]

WritersAfterAssign(w, st, k, agent) ==
    IF \A j \in Keys : ~Has(st, j) THEN w ELSE [w EXCEPT ![k] = @ \cup {agent}]

----------------------------------------------------------------------------
(* The procedural stages *)

\* min_relevance_len: int = 40
default_min_relevance_len == 40

\* the current briefing text of the check and revise instructions:
\* briefing_revised if it exists, otherwise briefing_draft
CurrentBriefing(st) ==
    IF Has(st, "briefing_revised") THEN st["briefing_revised"] ELSE st["briefing_draft"]

\* TaggedItemsParserAgent._run_async_impl: the value stored under tagged_items
TaggedItemsData(st) ==
    LET json_str == ExtractJsonBlock(GetOrEmptyText(st, "tagged_items_raw"))
        parsed   == JsonLoads(json_str)
        model    == NewsItemListValidate(parsed.obj)
    IN  IF parsed.ok /\ model.ok THEN model.data ELSE [items |-> <<>>]

\* TrendNotesParserAgent._run_async_impl: the value stored under trend_notes
TrendNotesData(st) ==
    LET json_str == ExtractJsonBlock(GetOrEmptyText(st, "trend_notes_raw"))
        parsed   == JsonLoads(json_str)
        model    == TrendNotesValidate(parsed.obj)
    IN  IF parsed.ok /\ model.ok THEN model.data ELSE EmptyTrendNotes

\* a plausible slip: the isinstance test inverted, every dict replaced by {}
RiskReportDataInvertedCheck(st) == EmptyDict

\* RiskReportParserAgent._run_async_impl: the value stored under risk_report
RiskReportData(st) ==
    LET json_str == ExtractJsonBlock(GetOrEmptyText(st, "risk_report_raw"))
        parsed   == JsonLoads(json_str)
    IN  IF parsed.ok THEN parsed.obj ELSE EmptyDict

Unknown == <<"u", "n", "k", "n", "o", "w", "n">>

\* a plausible slip: the bucket is the region as written, without lower()
RegionBucketCaseSensitive(item) ==
    IF item["region"] = <<>> THEN Unknown ELSE item["region"]

\* a plausible slip: (item.get("region") or "").lower()
RegionBucketNoDefault(item) == Lower(item["region"])

\* (item.get("region") or "unknown").lower()
RegionBucket(item) == Lower(IF item["region"] = <<>> THEN Unknown ELSE item["region"])

\* MetricsAgent._run_async_impl: the value stored under metrics_summary
MetricsData(st) ==
    LET items  == IF Has(st, "tagged_items") THEN st["tagged_items"][1].items ELSE <<>>
        report == IF Has(st, "risk_report") THEN st["risk_report"][1] ELSE EmptyDict
        issues == report["issues"]
        buckets == {RegionBucket(items[i]) : i \in 1..Len(items)}
    IN  [tagged_items_count |-> Len(items),
         items_by_region |->
            [r \in buckets |-> Cardinality({i \in 1..Len(items) : RegionBucket(items[i]) = r})],
         risk_issue_count |->
            IF issues # NoValue /\ issues[1].kind = "list" THEN Len(issues[1].val) ELSE 0]

----------------------------------------------------------------------------
(* SpecMetrics: MetricsAgent._run_async_impl on any values of tagged_items *)
(* and risk_report.  A Python value is [kind, val]: val is the characters  *)
(* of a "str", the elements of a "list", a digit of a non-zero "num"; a    *)
(* "dict" is given by the one key the code reads from it (items, issues,   *)
(* region): val is NoValue when that key is missing or None, else <<v>>.   *)

PyNum == [kind |-> "num", val |-> <<"5">>]
PyStr(s) == [kind |-> "str", val |-> s]
PyList(elems) == [kind |-> "list", val |-> elems]
PyDict(entry) == [kind |-> "dict", val |-> entry]

\* bool(x) of an optional value; a dict is read by .get either way
Truthy(opt) ==
    /\ opt # NoValue
    /\ opt[1].kind \in {"str", "list"} => opt[1].val # <<>>

\* x or {}
OrEmptyDict(opt) == IF Truthy(opt) THEN opt[1] ELSE PyDict(NoValue)

\* x or []
OrEmptyList(opt) == IF Truthy(opt) THEN opt[1] ELSE PyList(<<>>)

\* obj.get(key) if isinstance(obj, dict) else []
GetIfDict(obj) == IF obj.kind = "dict" THEN obj.val ELSE Str(PyList(<<>>))

\* for item in items: a list yields its elements, a str its characters,
\* a number is not iterable
Iterable(items) == items.kind \in {"list", "str"}
Elements(items) ==
    IF items.kind = "str" THEN [i \in 1..Len(items.val) |-> PyStr(<<items.val[i]>>)]
    ELSE items.val

\* .lower() exists on str only
RegionRaises(item) ==
    /\ item.kind = "dict"
    /\ Truthy(item.val)
    /\ item.val[1].kind # "str"

\* the body of the loop over items
RegionOf(item) ==
    IF item.kind = "dict"
    THEN RegionBucket([region |-> IF item.val = NoValue THEN <<>> ELSE item.val[1].val])
    ELSE Unknown

\* a plausible slip: len(issues) without the isinstance test
IssueCountAnyLen(issues) == Len(issues.val)

\* len(issues) if isinstance(issues, list) else 0
IssueCount(issues) == IF issues.kind = "list" THEN Len(issues.val) ELSE 0

\* MetricsAgent._run_async_impl up to the assignment of metrics
MetricsRun(tagged, risk) ==
    LET items  == OrEmptyList(GetIfDict(OrEmptyDict(tagged)))
        issues == OrEmptyList(GetIfDict(OrEmptyDict(risk)))
        elems  == Elements(items)
        buckets == {RegionOf(elems[i]) : i \in 1..Len(elems)}
    IN  IF ~Iterable(items) \/ \E i \in 1..Len(elems) : RegionRaises(elems[i])
        THEN [raised |-> TRUE,
              metrics |-> [tagged_items_count |-> 0, items_by_region |-> <<>>,
                           risk_issue_count |-> 0]]
        ELSE [raised |-> FALSE,
              metrics |->
                [tagged_items_count |-> Len(items.val),
                 items_by_region |->
                    [r \in buckets |->
                        Cardinality({i \in 1..Len(elems) : RegionOf(elems[i]) = r})],
                 risk_issue_count |-> IssueCount(issues)]]

City == <<"c", "i", "t", "y">>

MtRegions ==
    {NoValue, Str(PyStr(<<>>)), Str(PyStr(City)), Str(PyStr(<<"C", "i", "t", "y">>)),
     Str(PyStr(<<"M", "a", "r", "s">>)), Str(PyNum)}

MtElements == {PyDict(r) : r \in MtRegions} \cup {PyStr(<<"e">>)}

MtItemLists == UNION {[1..n -> MtElements] : n \in 0..MaxItems}

MtItems ==
    {NoValue, Str(PyNum), Str(PyStr(<<"a", "b">>))} \cup {Str(PyList(l)) : l \in MtItemLists}

MtTagged ==
    {NoValue, Str(PyNum), Str(PyStr(<<"t">>))} \cup {Str(PyDict(v)) : v \in MtItems}

MtIssueLists == UNION {[1..n -> {PyDict(NoValue)}] : n \in 0..MaxItems}

MtIssues ==
    {NoValue, Str(PyNum), Str(PyStr(<<"i">>))} \cup {Str(PyList(l)) : l \in MtIssueLists}

MtRisk ==
    {NoValue, Str(PyNum), Str(PyStr(<<"r">>))} \cup {Str(PyDict(v)) : v \in MtIssues}

InitMetrics ==
    /\ mt_tagged \in MtTagged
    /\ mt_risk \in MtRisk
    /\ mt_other \in BOOLEAN
    /\ mt_summary = NoValue
    /\ mt_pc = "in"
    /\ ExtractIdle
    /\ DedupeIdle
    /\ WorkflowIdle
    /\ CallsIdle
    /\ CliIdle
    /\ RequestsIdle

\* session.state is {} : the state the stage writes to is a fresh dict
MtStateEmpty == mt_tagged = NoValue /\ mt_risk = NoValue /\ ~mt_other

RunMetrics ==
    /\ mt_pc = "in"
    /\ LET run == MetricsRun(mt_tagged, mt_risk)
       IN  /\ mt_pc' = IF run.raised THEN "raised" ELSE "done"
           /\ mt_summary' =
                IF run.raised \/ MtStateEmpty THEN mt_summary ELSE Str(run.metrics)
    /\ UNCHANGED <<mt_tagged, mt_risk, mt_other, exVars, ddVars, wfVars, dcVars, cliVars, rqVars>>

NextMetrics == RunMetrics

SpecMetrics == InitMetrics /\ [][NextMetrics]_vars

----------------------------------------------------------------------------
(* Spec: one run of arovi_workflow_agent *)

Current == IF stage \in 1..Len(Workflow) THEN Workflow[stage] ELSE "none"

InSeq(x, q) == \E i \in 1..Len(q) : q[i] = x

MarkStarted(agent) == IF InSeq(agent, started) THEN started ELSE Append(started, agent)

\* the loop runs another iteration; a plausible slip: it also stops once the
\* parsed report says is_safe with no issues
LoopContinuesUntilSafe(n) ==
    /\ n < max_iterations
    /\ ~(/\ Has(state, "risk_report")
         /\ state["risk_report"][1]["is_safe"] = Str(JBool("true"))
         /\ state["risk_report"][1]["issues"] = Str(JList(<<>>)))

\* LoopAgent: while times_looped < max_iterations
LoopContinues(n) == n < max_iterations

\* ParallelAgent starts a branch
BeginBranch(b) ==
    /\ Current = "ingestion_parallel_agent"
    /\ br[b] = "idle"
    /\ br' = [br EXCEPT ![b] = "running"]
    /\ running' = running \cup {b}
    /\ started' = MarkStarted("ingestion_parallel_agent")
    /\ UNCHANGED <<state, stage, times_looped, loop_idx, completed, runs, emitted, writers, exVars, ddVars, fnVars>>

\* the oracle of a branch answers
EndBranch(b) ==
    /\ Current = "ingestion_parallel_agent"
    /\ br[b] = "running"
    /\ \E answer \in OracleAnswers(IngestionTexts(b)) :
          /\ state' = CommitAnswer(state, b, answer)
          /\ writers' = WritersAfterAnswer(writers, b, answer)
          /\ emitted' = [emitted EXCEPT ![b] = answer]
    /\ br' = [br EXCEPT ![b] = "done"]
    /\ running' = running \ {b}
    /\ UNCHANGED <<stage, times_looped, loop_idx, started, completed, runs, exVars, ddVars, fnVars>>

\* ParallelAgent completes
JoinBranches ==
    /\ Current = "ingestion_parallel_agent"
    /\ AllBranchesDone(br)
    /\ stage' = stage + 1
    /\ completed' = Append(completed, "ingestion_parallel_agent")
    /\ UNCHANGED <<state, running, br, times_looped, loop_idx, started, runs, emitted, writers, exVars, ddVars, fnVars>>

\* SequentialAgent invokes an LlmAgent sub-agent
BeginLlm(agent) ==
    /\ Current = agent
    /\ running = {}
    /\ running' = {agent}
    /\ started' = MarkStarted(agent)
    /\ UNCHANGED <<state, stage, br, times_looped, loop_idx, completed, runs, emitted, writers, exVars, ddVars, fnVars>>

\* its oracle answers and the next sub-agent is due
EndLlm(agent, texts) ==
    /\ Current = agent
    /\ agent \in running
    /\ \E answer \in OracleAnswers(texts) :
          /\ state' = CommitAnswer(state, agent, answer)
          /\ writers' = WritersAfterAnswer(writers, agent, answer)
    /\ running' = {}
    /\ stage' = stage + 1
    /\ completed' = Append(completed, agent)
    /\ UNCHANGED <<br, times_looped, loop_idx, started, runs, emitted, exVars, ddVars, fnVars>>

BeginClassification == BeginLlm("classification_agent")
EndClassification == EndLlm("classification_agent", ClassificationTexts)
BeginTrend == BeginLlm("trend_agent")
EndTrend == EndLlm("trend_agent", TrendTexts)
BeginDrafting == BeginLlm("drafting_agent")
EndDrafting == EndLlm("drafting_agent", DraftTexts)

\* a procedural sub-agent of the workflow runs to completion
Procedural(agent, key, value) ==
    /\ Current = agent
    /\ running = {}
    /\ state' = AssignKey(state, key, value)
    /\ writers' = WritersAfterAssign(writers, state, key, agent)
    /\ started' = MarkStarted(agent)
    /\ completed' = Append(completed, agent)
    /\ stage' = stage + 1
    /\ UNCHANGED <<running, br, times_looped, loop_idx, runs, emitted, exVars, ddVars, fnVars>>

TaggedItemsParser ==
    Procedural("tagged_items_parser_agent", "tagged_items", TaggedItemsData(state))

TrendNotesParser ==
    Procedural("trend_notes_parser_agent", "trend_notes", TrendNotesData(state))

Metrics == Procedural("metrics_agent", "metrics_summary", MetricsData(state))

LoopDue(agent) ==
    /\ Current = "risk_loop_agent"
    /\ LoopContinues(times_looped)
    /\ LoopSubAgents[loop_idx] = agent

\* after the last sub-agent the iteration is counted
AdvanceLoop ==
    /\ runs' = [runs EXCEPT ![loop_idx] = @ + 1]
    /\ IF loop_idx = Len(LoopSubAgents)
       THEN loop_idx' = 1 /\ times_looped' = times_looped + 1
       ELSE loop_idx' = loop_idx + 1 /\ times_looped' = times_looped

BeginLoopLlm(agent) ==
    /\ LoopDue(agent)
    /\ running = {}
    /\ running' = {agent}
    /\ started' = MarkStarted("risk_loop_agent")
    /\ UNCHANGED <<state, stage, br, times_looped, loop_idx, completed, runs, emitted, writers, exVars, ddVars, fnVars>>

EndLoopLlm(agent, texts) ==
    /\ LoopDue(agent)
    /\ agent \in running
    /\ \E answer \in OracleAnswers(texts) :
          /\ state' = CommitAnswer(state, agent, answer)
          /\ writers' = WritersAfterAnswer(writers, agent, answer)
    /\ running' = {}
    /\ AdvanceLoop
    /\ UNCHANGED <<stage, br, started, completed, emitted, exVars, ddVars, fnVars>>

BeginRiskChecker == BeginLoopLlm("risk_checker_agent")
EndRiskChecker == EndLoopLlm("risk_checker_agent", RiskTexts)
BeginRedraft == BeginLoopLlm("redraft_agent")
EndRedraft == EndLoopLlm("redraft_agent", {RevisedText(times_looped + 1)})

RiskReportParser ==
    /\ LoopDue("risk_report_parser_agent")
    /\ running = {}
    /\ state' = AssignKey(state, "risk_report", RiskReportData(state))
    /\ writers' = WritersAfterAssign(writers, state, "risk_report", "risk_report_parser_agent")
    /\ AdvanceLoop
    /\ UNCHANGED <<stage, running, br, started, completed, emitted, exVars, ddVars, fnVars>>

\* LoopAgent completes
ExitLoop ==
    /\ Current = "risk_loop_agent"
    /\ ~LoopContinues(times_looped)
    /\ running = {}
    /\ stage' = stage + 1
    /\ started' = MarkStarted("risk_loop_agent")
    /\ completed' = Append(completed, "risk_loop_agent")
    /\ UNCHANGED <<state, running, br, times_looped, loop_idx, runs, emitted, writers, exVars, ddVars, fnVars>>

Init ==
    /\ WorkflowInit
    /\ ExtractIdle
    /\ DedupeIdle
    /\ FunctionsIdle

Next ==
    \/ \E b \in Branches : BeginBranch(b)
    \/ \E b \in Branches : EndBranch(b)
    \/ JoinBranches
    \/ BeginClassification
    \/ EndClassification
    \/ TaggedItemsParser
    \/ BeginTrend
    \/ EndTrend
    \/ TrendNotesParser
    \/ BeginDrafting
    \/ EndDrafting
    \/ BeginRiskChecker
    \/ EndRiskChecker
    \/ RiskReportParser
    \/ BeginRedraft
    \/ EndRedraft
    \/ ExitLoop
    \/ Metrics

Spec == Init /\ [][Next]_vars

----------------------------------------------------------------------------
(* SpecCli: run_arovi_once (runner.py).  The run of arovi_root_agent leaves *)
(* the briefing keys in session.state: each is absent or holds the text an  *)
(* LlmAgent committed, which is empty when the parts of the final response  *)
(* carry no text.                                                           *)

\* pieces joined into the user message; "if state:" and "if date_str:" skip
\* None and the empty string alike
UserMessage(args) ==
    <<"Generate a calm, public-health daily briefing for city">>
        \o (IF args.state # NoValue /\ args.state # Str(<<>>)
            THEN <<"in the state/region">> ELSE <<>>)
        \o (IF args.country # <<>> THEN <<"in country">> ELSE <<>>)
        \o (IF args.date_str # NoValue /\ args.date_str # Str(<<>>)
            THEN <<"for the date">> ELSE <<"for today">>)

CliArgs ==
    [state : {NoValue, Str(<<>>), Str(<<"IL">>)},
     country : {<<>>, <<"US">>},
     date_str : {NoValue, Str(<<"d">>)}]

FinalStates ==
    [briefing_revised : OracleAnswers({<<>>, RevisedText(1), RevisedText(2)}),
     briefing_draft : OracleAnswers({<<>>} \cup DraftTexts)]

NoBriefingMessage == <<"No final briefing found in state.">>

\* bool(x) of state.get(key): None and "" are falsy
NonEmptyText(opt) == opt # NoValue /\ opt[1] # <<>>

\* a plausible slip: the operands of "or" swapped
FinalBriefingDraftFirst(st) ==
    IF NonEmptyText(st.briefing_draft) THEN st.briefing_draft ELSE st.briefing_revised

\* state.get("briefing_revised") or state.get("briefing_draft")
FinalBriefing(st) ==
    IF NonEmptyText(st.briefing_revised) THEN st.briefing_revised ELSE st.briefing_draft

\* if final_briefing: print(final_briefing) else: print("No final briefing ...")
Printed(st) ==
    IF NonEmptyText(FinalBriefing(st)) THEN FinalBriefing(st)[1] ELSE NoBriefingMessage

InitCli ==
    /\ cli_args \in CliArgs
    /\ cli_message = <<>>
    /\ cli_final = [briefing_revised |-> NoValue, briefing_draft |-> NoValue]
    /\ cli_printed = <<>>
    /\ cli_pc = "in"
    /\ ExtractIdle
    /\ DedupeIdle
    /\ WorkflowIdle
    /\ CallsIdle
    /\ MetricsIdle
    /\ RequestsIdle

\* create_runner, the user message, runner.run to the end of the event stream
RunRunner ==
    /\ cli_pc = "in"
    /\ cli_message' = UserMessage(cli_args)
    /\ cli_final' \in FinalStates
    /\ cli_pc' = "ran"
    /\ UNCHANGED <<cli_args, cli_printed, exVars, ddVars, wfVars, dcVars, mtVars, rqVars>>

\* get_session, then the final briefing or the message is printed
PrintFinal ==
    /\ cli_pc = "ran"
    /\ cli_printed' = Printed(cli_final)
    /\ cli_pc' = "printed"
    /\ UNCHANGED <<cli_args, cli_message, cli_final, exVars, ddVars, wfVars, dcVars, mtVars, rqVars>>

NextCli == RunRunner \/ PrintFinal

SpecCli == InitCli /\ [][NextCli]_vars

----------------------------------------------------------------------------
(* SpecRequests: a sequence of requests, each through run_arovi_once        *)
(* (runner.py) or through the page of streamlit_app.py.  A session state is *)
(* a dict in insertion order: a sequence of [key, value] entries.           *)

CliSessionId == <<"arovi_session_1", 0>>

\* create_session without session_id: a new id for every session
WebSessionId(n) == <<"web", n>>

SessionIds == {CliSessionId} \cup {WebSessionId(n) : n \in 1..(MaxRequests + 1)}

NoSessions == [sid \in SessionIds |-> NoValue]

\* a plausible slip: one session service at module level, shared by the calls
NewSessionServiceShared(previous) ==
    IF previous = <<>> THEN NoSessions ELSE previous

\* session_service = InMemorySessionService(); InMemoryRunner(...): every
\* call builds a service of its own, which holds no session
NewSessionService(previous) == NoSessions

\* create_session: a session with an empty state (an existing one is kept)
CreateSession(store, sid) ==
    IF store[sid] # NoValue THEN store ELSE [store EXCEPT ![sid] = Str(<<>>)]

DictKeys(d) == {d[i].key : i \in 1..Len(d)}

DictGet(d, k) ==
    IF k \in DictKeys(d)
    THEN Str(d[CHOOSE i \in 1..Len(d) : d[i].key = k].value)
    ELSE NoValue

\* d[k] = v: a new key goes to the end, an existing key keeps its position
DictSet(d, k, v) ==
    IF k \in DictKeys(d)
    THEN [i \in 1..Len(d) |-> IF d[i].key = k THEN [key |-> k, value |-> v] ELSE d[i]]
    ELSE Append(d, [key |-> k, value |-> v])

\* the state_delta of an LlmAgent answer applied to the session state
DictCommit(d, k, answer) == IF answer = NoValue THEN d ELSE DictSet(d, k, PyStr(answer[1]))

\* One run of arovi_root_agent: the drafting stage commits briefing_draft
\* before the loop writes risk_report and commits briefing_revised.
RunWrites(d, draft, report, revised) ==
    LET d1 == DictCommit(d, "briefing_draft", draft)
        d2 == IF report /\ d1 # <<>> THEN DictSet(d1, "risk_report", PyDict(NoValue)) ELSE d1
    IN  DictCommit(d2, "briefing_revised", revised)

RqDraftAnswers == OracleAnswers({<<>>} \cup DraftTexts)
RqRevisedAnswers == OracleAnswers({<<>>, <<" ">>, <<"revised">>})

\* "final_briefing" in str(k)
ContainsFinalBriefing(k) == k = "final_briefing"

\* "briefing" in str(k).lower()
ContainsBriefing(k) == k \in {"briefing_draft", "briefing_revised", "final_briefing"}

\* isinstance(v, str) and v.strip()
NonBlankStr(v) == v.kind = "str" /\ Strip(v.val) # <<>>

\* for k, v in state_dict.items(): the first entry that matches, else ""
\* final_only: the first loop, over the keys holding "final_briefing"
RECURSIVE FirstBriefing(_, _)
FirstBriefing(d, final_only) ==
    IF d = <<>> THEN <<>>
    ELSE IF /\ IF final_only THEN ContainsFinalBriefing(Head(d).key)
                             ELSE ContainsBriefing(Head(d).key)
            /\ NonBlankStr(Head(d).value)
         THEN Head(d).value.val
    ELSE FirstBriefing(Tail(d), final_only)

\* _run_arovi_once_async: briefing_md
WebBriefing(state_dict) ==
    LET briefing_md == FirstBriefing(state_dict, TRUE)
    IN  IF briefing_md = <<>> THEN FirstBriefing(state_dict, FALSE)
        ELSE briefing_md

\* the text of a key as run_arovi_once of runner.py reads it
CliView(d) ==
    [k \in {"briefing_revised", "briefing_draft"} |->
        IF DictGet(d, k) = NoValue THEN NoValue ELSE Str(DictGet(d, k)[1].val)]

NoBriefingWarning == <<"No briefing generated.">>

\* the page: the briefing when last_briefing is not blank, else the warning
PageShows(last_briefing) ==
    IF Strip(last_briefing) # <<>> THEN last_briefing ELSE NoBriefingWarning

InitRequests ==
    /\ rq_n = 0
    /\ rq_front = "none"
    /\ rq_sid = <<"none", 0>>
    /\ rq_store = <<>>
    /\ rq_start = <<>>
    /\ rq_written = {}
    /\ rq_briefing = <<>>
    /\ rq_last = <<>>
    /\ rq_shown = <<>>
    /\ rq_pc = "idle"
    /\ ExtractIdle
    /\ DedupeIdle
    /\ WorkflowIdle
    /\ CallsIdle
    /\ MetricsIdle
    /\ CliIdle

KeysIn(store) ==
    IF store = <<>> THEN {}
    ELSE UNION {DictKeys(store[sid][1]) : sid \in {s \in SessionIds : store[s] # NoValue}}

\* create_runner (runner.py) or InMemoryRunner and create_session (web)
CreateRunner(front) ==
    /\ rq_pc = "idle"
    /\ rq_n < MaxRequests
    /\ LET sid == IF front = "cli" THEN CliSessionId ELSE WebSessionId(rq_n + 1)
           store == CreateSession(NewSessionService(rq_store), sid)
       IN  /\ rq_sid' = sid
           /\ rq_store' = store
           /\ rq_start' = store[sid][1]
    /\ rq_written' = rq_written \cup KeysIn(rq_store)
    /\ rq_n' = rq_n + 1
    /\ rq_front' = front
    /\ rq_pc' = "created"
    /\ UNCHANGED <<rq_briefing, rq_last, rq_shown, exVars, ddVars, wfVars, dcVars, mtVars, cliVars>>

\* runner.run / run_debug to the end of the run
RunAgent ==
    /\ rq_pc = "created"
    /\ \E draft \in RqDraftAnswers, revised \in RqRevisedAnswers, report \in BOOLEAN :
          rq_store' =
             [rq_store EXCEPT ![rq_sid] = Str(RunWrites(@[1], draft, report, revised))]
    /\ rq_pc' = "ran"
    /\ UNCHANGED <<rq_n, rq_front, rq_sid, rq_start, rq_written, rq_briefing, rq_last,
                   rq_shown, exVars, ddVars, wfVars, dcVars, mtVars, cliVars>>

\* the front end reads session.state and selects the briefing
SelectBriefing ==
    /\ rq_pc = "ran"
    /\ rq_briefing' =
          IF rq_front = "web" THEN WebBriefing(rq_store[rq_sid][1])
          ELSE Printed(CliView(rq_store[rq_sid][1]))
    /\ rq_pc' = "selected"
    /\ UNCHANGED <<rq_n, rq_front, rq_sid, rq_store, rq_start, rq_written, rq_last,
                   rq_shown, exVars, ddVars, wfVars, dcVars, mtVars, cliVars>>

\* the page stores last_briefing and renders; the CLI has printed already
ShowBriefing ==
    /\ rq_pc = "selected"
    /\ IF rq_front = "web"
       THEN /\ rq_last' = rq_briefing
            /\ rq_shown' = PageShows(rq_briefing)
       ELSE UNCHANGED <<rq_last, rq_shown>>
    /\ rq_pc' = "idle"
    /\ UNCHANGED <<rq_n, rq_front, rq_sid, rq_store, rq_start, rq_written, rq_briefing,
                   exVars, ddVars, wfVars, dcVars, mtVars, cliVars>>

NextRequests ==
    \/ CreateRunner("cli")
    \/ CreateRunner("web")
    \/ RunAgent
    \/ SelectBriefing
    \/ ShowBriefing

SpecRequests == InitRequests /\ [][NextRequests]_vars

----------------------------------------------------------------------------
(* Properties of _extract_json_block (SpecExtract) *)

Chars(t) == {t[i] : i \in 1..Len(t)}

\* the positions where some fence marker (three backticks) starts
FenceOccurrences(t) == {i \in 1..Len(t) : FenceAt(t, i)}

Min(S) == CHOOSE x \in S : \A y \in S : x <= y
Max(S) == CHOOSE x \in S : \A y \in S : x >= y

\* the characters of t at the positions in keep, in order
RECURSIVE KeepFrom(_, _, _)
KeepFrom(t, i, keep) ==
    IF i > Len(t) THEN <<>>
    ELSE (IF i \in keep THEN <<t[i]>> ELSE <<>>) \o KeepFrom(t, i + 1, keep)

\* first '{' to last '}' inclusive when the first precedes the last, else "{}"
RefBraces(c) ==
    LET opens  == {i \in 1..Len(c) : c[i] = LB}
        closes == {i \in 1..Len(c) : c[i] = RB}
    IN  IF opens # {} /\ closes # {} /\ Min(opens) < Max(closes)
        THEN KeepFrom(c, 1, Min(opens)..Max(closes))
        ELSE EmptyObject

\* the reference extractor as the specification words it: the candidate is the
\* content between the first and the last fence marker, else the whole text
RefCandidateBetween(t) ==
    LET occ == FenceOccurrences(t)
    IN  IF occ = {} THEN t
        ELSE KeepFrom(t, 1, (Min(occ) + 3)..(Max(occ) - 1))

RefExtractBetween(t) == RefBraces(RefCandidateBetween(t))

\* the fence markers as split counts them: left to right without overlap, i.e.
\* at every third position of a maximal run of backticks
RunStart(t, i) ==
    CHOOSE r \in 1..i :
        /\ \A k \in r..i : t[k] = BT
        /\ (r = 1 \/ t[r - 1] # BT)

FenceMarkers(t) == {i \in FenceOccurrences(t) : (i - RunStart(t, i)) % 3 = 0}

InMarker(t, p) == \E m \in FenceMarkers(t) : p \in m..(m + 2)

\* the candidate the code builds: two or more markers - what lies between the
\* first and the last with the markers in between removed; one marker - what
\* follows it; no marker - the whole text
RefCandidateCode(t) ==
    LET ms == FenceMarkers(t)
    IN  IF ms = {} THEN t
        ELSE IF Cardinality(ms) = 1
             THEN KeepFrom(t, 1, (Min(ms) + 3)..Len(t))
             ELSE KeepFrom(t, 1, {p \in (Min(ms) + 3)..(Max(ms) - 1) : ~InMarker(t, p)})

RefExtractCode(t) == RefBraces(RefCandidateCode(t))

RECURSIVE Depth(_, _)
Depth(t, d) ==
    IF t = <<>> THEN d
    ELSE IF d < 0 THEN d
    ELSE Depth(Tail(t), d + (IF Head(t) = LB THEN 1 ELSE IF Head(t) = RB THEN -1 ELSE 0))

Balanced(t) == Depth(t, 0) = 0

\* C7 (as claimed): every returned string has balanced braces (a necessary
\* condition of being a parseable JSON object).
C7_BalancedBraces ==
    ex_pc # "in" => Balanced(ex_out)

\* C7 (amended): the function is total and every returned string starts with
\* '{' and ends with '}' ("{}" when the candidate has no '{' before a '}').
C7_BraceDelimited ==
    ex_pc # "in" =>
        /\ Len(ex_out) >= 2
        /\ ex_out[1] = LB
        /\ ex_out[Len(ex_out)] = RB
        /\ (\A i \in 1..Len(ex_text), j \in 1..Len(ex_text) :
                ~(i < j /\ ex_text[i] = LB /\ ex_text[j] = RB)) => ex_out = EmptyObject

\* a returned slice that is brace-delimited but not balanced
C7_Witness ==
    /\ ex_pc = "once"
    /\ ex_out # EmptyObject
    /\ ~Balanced(ex_out)

\* C8: extract(extract(t)) = extract(t) for every text t.
C8_Idempotent ==
    ex_pc = "twice" => ex_out2 = ex_out

\* a fenced text with a backtick inside the block, extracted twice
C8_Witness ==
    /\ ex_pc = "twice"
    /\ Cardinality(FenceMarkers(ex_text)) >= 2
    /\ BT \in Chars(ex_out)
    /\ ex_out2 = ex_out

----------------------------------------------------------------------------
(* Properties of _filter_and_dedupe_items_impl (SpecDedupe) *)

StrippedTitle(item) == Strip(GetOrEmpty(item, "title"))
StrippedRegion(item) == Strip(GetOrEmpty(item, "region"))
StrippedRelevance(item) == Strip(GetOrEmpty(item, "public_health_relevance"))

\* the (region, title) pair of an item, stripped and lower-cased
RefKey(item) ==
    <<[i \in 1..Len(StrippedRegion(item)) |-> LowerChar(StrippedRegion(item)[i])],
      [i \in 1..Len(StrippedTitle(item)) |-> LowerChar(StrippedTitle(item)[i])]>>

\* an item that passes the validity checks
RefValid(item, min) ==
    /\ StrippedTitle(item) # <<>>
    /\ StrippedRegion(item) # <<>>
    /\ Len(StrippedRelevance(item)) >= min

\* C9: filtered_items holds no two items with equal stripped, lower-cased
\* (region, title) pairs, and every item has a non-empty stripped title and
\* region and a stripped relevance of length >= min_relevance_len.
C9_FilteredUniqueAndValid ==
    dd_pc = "done" =>
        LET f == dd_res.filtered_items
        IN  /\ \A i \in 1..Len(f), j \in 1..Len(f) : i # j => RefKey(f[i]) # RefKey(f[j])
            /\ \A i \in 1..Len(f) : RefValid(f[i], dd_min)

\* two valid inputs whose keys differ only in case and padding, one retained
C9_Witness ==
    /\ dd_pc = "done"
    /\ Len(dd_items) = 2
    /\ RefValid(dd_items[1], dd_min) /\ RefValid(dd_items[2], dd_min)
    /\ RefKey(dd_items[1]) = RefKey(dd_items[2])
    /\ dd_items[1].title # dd_items[2].title
    /\ dd_res.filtered_count = 1

\* the indices the keep-first-valid-seen rule retains
FirstValidSeen(items, min) ==
    {i \in 1..Len(items) :
        /\ RefValid(items[i], min)
        /\ \A j \in 1..(i - 1) :
              RefValid(items[j], min) => RefKey(items[j]) # RefKey(items[i])}

\* C10: among the inputs sharing a (region, title) key the retained item is the
\* earliest valid one; an earlier invalid item does not reserve the key, and
\* items differing only in other fields are duplicates, the first surviving.
C10_KeepFirstValidSeen ==
    dd_pc = "done" =>
        dd_res.filtered_items = KeepFrom(dd_items, 1, FirstValidSeen(dd_items, dd_min))

\* an item dropped for short relevance, then a valid item with its key retained
C10_Witness ==
    /\ dd_pc = "done"
    /\ Len(dd_items) = 2
    /\ ~RefValid(dd_items[1], dd_min)
    /\ StrippedTitle(dd_items[1]) # <<>> /\ StrippedRegion(dd_items[1]) # <<>>
    /\ RefKey(dd_items[1]) = RefKey(dd_items[2])
    /\ dd_res.filtered_items = <<dd_items[2]>>

----------------------------------------------------------------------------
(* Properties of a sequence of calls of the filter (SpecDedupeCalls) *)

\* C11: the filter is stateless and idempotent: the call repeated after any
\* call in between returns what the first call returned, the call on the
\* filtered_items of the first returns that same list, and the list that
\* was passed holds the same items after every call.
C11_StatelessIdempotent ==
    /\ dc_pc \in {"second", "self"} => dc_second = dc_first
    /\ dc_pc = "self" => dc_self.filtered_items = dc_first.filtered_items
    /\ dc_pc # "idle" => dc_items = dc_orig

\* the call in between retained an item with the key of an item the first
\* call retained, and the first call dropped something
C11_Witness ==
    /\ dc_pc = "self"
    /\ dc_first.filtered_count >= 1
    /\ dc_first.filtered_count < dc_first.original_count
    /\ \E i \in 1..Len(dc_other) :
          /\ RefValid(dc_other[i], dc_min)
          /\ RefKey(dc_other[i]) = RefKey(dc_first.filtered_items[1])

----------------------------------------------------------------------------
(* Properties of the workflow (Spec) *)

IsSafeNoIssues(report) ==
    /\ report["is_safe"] # NoValue
    /\ report["is_safe"][1] = [kind |-> "bool", val |-> <<"true">>]
    /\ report["issues"] # NoValue
    /\ report["issues"][1] = [kind |-> "list", val |-> <<>>]

ExpectedOrder ==
    <<"ingestion_parallel_agent", "classification_agent", "tagged_items_parser_agent",
      "trend_agent", "trend_notes_parser_agent", "drafting_agent",
      "risk_loop_agent", "metrics_agent">>

\* C2: the stages begin and complete in the fixed order ingestion,
\* classification, tagged-items parser, trend, trend-notes parser, drafting,
\* risk loop, metrics; a stage begins only after the one before it completed.
C2_StagesInFixedOrder ==
    /\ Len(started) <= Len(ExpectedOrder)
    /\ started = SubSeq(ExpectedOrder, 1, Len(started))
    /\ completed = SubSeq(ExpectedOrder, 1, Len(completed))
    /\ Len(completed) <= Len(started)
    /\ Len(started) <= Len(completed) + 1
    /\ running # {} => Len(started) = Len(completed) + 1

\* a run in which all eight stages completed
C2_Witness ==
    /\ completed = ExpectedOrder
    /\ Has(state, "metrics_summary")

FourBranches ==
    {"global_ingestion_agent", "us_ingestion_agent",
     "state_ingestion_agent", "city_ingestion_agent"}

\* C3: classification (and every later stage) starts only after all four
\* ingestion branches have completed, under every interleaving.
C3_JoinBeforeClassification ==
    (Len(started) >= 2 \/ Len(completed) >= 1 \/ "classification_agent" \in running)
        => \A b \in FourBranches : br[b] = "done"

\* classification is running after branches that answered differently
C3_Witness ==
    /\ "classification_agent" \in running
    /\ \A b \in FourBranches : br[b] = "done"
    /\ emitted["global_ingestion_agent"] = NoValue
    /\ emitted["city_ingestion_agent"] # NoValue

BranchKey(b) ==
    CASE b = "global_ingestion_agent" -> "items_global_raw"
      [] b = "us_ingestion_agent" -> "items_us_raw"
      [] b = "state_ingestion_agent" -> "items_state_raw"
      [] b = "city_ingestion_agent" -> "items_city_raw"

\* C4: no key has more than one writer; each of the four ingestion keys holds
\* exactly what its own branch returned (nothing before the branch is done),
\* under every interleaving and whatever the other branches return.
C4_DisjointKeys ==
    /\ \A k \in Keys : Cardinality(writers[k]) <= 1
    /\ \A b \in FourBranches :
          IF br[b] = "done"
          THEN state[BranchKey(b)] = emitted[b]
          ELSE state[BranchKey(b)] = NoValue

\* all branches done: one returned nothing, one prose, the others their tag
C4_Witness ==
    /\ \A b \in FourBranches : br[b] = "done"
    /\ state["items_global_raw"] = NoValue
    /\ state["items_us_raw"] = Str(<<"x">>)
    /\ state["items_state_raw"] = Str(<<LB, "state_ingestion_agent", RB>>)
    /\ state["items_city_raw"] = Str(<<LB, "city_ingestion_agent", RB>>)

\* the raw texts whose JSON is malformed, lacks a required field or has a
\* wrong type
FailingTaggedTexts ==
    {TaggedMalformed, TaggedMissingField, TaggedWrongType, TaggedWrongFieldType}
FailingTrendTexts == {TrendMalformed, TrendWrongType}
FailingRiskTexts == {RiskMalformed}

HoldsOneOf(k, texts) == Has(state, k) /\ state[k][1] \in texts

----------------------------------------------------------------------------
(* Properties of the values the procedural stages store (Spec) *)

StoredItems == state["tagged_items"][1].items

\* a stored item as the dedupe tool reads it
AsToolItem(item) == [f \in ItemFields |-> Str(item[f])]

StoredToolItems == [i \in 1..Len(StoredItems) |-> AsToolItem(StoredItems[i])]

UniqueAndValid(items, min) ==
    /\ \A i \in 1..Len(items), j \in 1..Len(items) :
          i # j => RefKey(items[i]) # RefKey(items[j])
    /\ \A i \in 1..Len(items) : RefValid(items[i], min)

\* C12 as claimed: after the classification parser the items under
\* tagged_items hold no two items with the same (region, title) pair
\* case-insensitively, and every item has a title, a region and a relevance
\* of at least 40 characters, whatever the oracle answered.
C12_StoredUniqueAndValid ==
    (InSeq("tagged_items_parser_agent", completed) /\ Has(state, "tagged_items")) =>
        UniqueAndValid(StoredToolItems, default_min_relevance_len)

\* C12: the parser stores the validated items of the classification answer
\* unfiltered.  They are unique and valid when the answer is a list the
\* dedupe tool with its default threshold leaves unchanged; duplicates and
\* short relevance in the answer are stored as they are.
C12_StoredAsAnswered ==
    (InSeq("tagged_items_parser_agent", completed) /\ Has(state, "tagged_items")) =>
        /\ FilterAndDedupeItemsImpl(StoredToolItems, default_min_relevance_len).filtered_items
                = StoredToolItems
              => UniqueAndValid(StoredToolItems, default_min_relevance_len)
        /\ state["tagged_items_raw"] = Str(TaggedDuplicates) =>
              /\ Len(StoredItems) = 2
              /\ RefKey(StoredToolItems[1]) = RefKey(StoredToolItems[2])
        /\ state["tagged_items_raw"] = Str(TaggedForeignRegion) =>
              /\ Len(StoredItems) = 2
              /\ ~RefValid(StoredToolItems[2], default_min_relevance_len)
        /\ state["tagged_items_raw"] = Str(TaggedGood) =>
              /\ Len(StoredItems) = 1
              /\ UniqueAndValid(StoredToolItems, default_min_relevance_len)

\* the oracle answered with two items differing only in case, both stored
C12_Witness ==
    /\ InSeq("tagged_items_parser_agent", completed)
    /\ state["tagged_items_raw"] = Str(TaggedDuplicates)
    /\ Has(state, "tagged_items")
    /\ Len(StoredItems) = 2

RecognizedRegions ==
    {<<"g", "l", "o", "b", "a", "l">>,
     <<"n", "a", "t", "i", "o", "n", "a", "l">>,
     <<"s", "t", "a", "t", "e">>,
     <<"c", "i", "t", "y">>}

RecognizedTopics ==
    {<<"i", "n", "f", "e", "c", "t", "i", "o", "u", "s", "_", "d", "i", "s", "e", "a", "s", "e">>,
     <<"e", "n", "v", "i", "r", "o", "n", "m", "e", "n", "t">>,
     <<"m", "e", "n", "t", "a", "l", "_", "h", "e", "a", "l", "t", "h">>,
     <<"h", "e", "a", "l", "t", "h", "_", "s", "y", "s", "t", "e", "m", "s">>,
     <<"i", "n", "j", "u", "r", "y", "_", "p", "r", "e", "v", "e", "n", "t", "i", "o", "n">>,
     <<"o", "t", "h", "e", "r">>}

RecognizedSentiments ==
    {<<"p", "o", "s", "i", "t", "i", "v", "e">>,
     <<"n", "e", "u", "t", "r", "a", "l">>,
     <<"n", "e", "g", "a", "t", "i", "v", "e">>}

\* C13: every item stored under tagged_items has its region in {global,
\* national, state, city}, its topic in the six recognized topics and its
\* sentiment in {positive, neutral, negative}; an item with another value
\* is never stored.
C13_StoredEnums ==
    (InSeq("tagged_items_parser_agent", completed) /\ Has(state, "tagged_items")) =>
        \A i \in 1..Len(StoredItems) :
            /\ StoredItems[i]["region"] \in RecognizedRegions
            /\ StoredItems[i]["topic"] \in RecognizedTopics
            /\ StoredItems[i]["sentiment"] \in RecognizedSentiments

\* the risk-report parser has completed and the check stage has not answered
\* since
RiskParserDone == runs[2] >= 1 /\ runs[2] = runs[1] /\ Has(state, "risk_report")

StoredReport == state["risk_report"][1]

\* the element names of an issues list are the types of the issue records
RecognizedIssueTypes == {"political", "speculative", "sensational", "unsupported_claim"}

RiskReportConforms(report) ==
    /\ report["is_safe"] # NoValue /\ report["is_safe"][1].kind = "bool"
    /\ report["issues"] # NoValue /\ report["issues"][1].kind = "list"
    /\ \A i \in 1..Len(report["issues"][1].val) :
          report["issues"][1].val[i] \in RecognizedIssueTypes
    /\ report["high_level_feedback"] # NoValue
    /\ report["high_level_feedback"][1].kind = "str"

C15_AlwaysCommits ==
    /\ InSeq("tagged_items_parser_agent", completed) =>
          /\ Has(state, "tagged_items")
          /\ ~Has(state, "tagged_items_raw") => state["tagged_items"] = <<[items |-> <<>>]>>
    /\ InSeq("trend_notes_parser_agent", completed) =>
          /\ Has(state, "trend_notes")
          /\ ~Has(state, "trend_notes_raw") =>
                state["trend_notes"] =
                    <<[key_trends |-> <<>>, risks |-> <<>>, positive_developments |-> <<>>,
                       notes_for_briefing_writer |-> <<>>]>>
    /\ runs[2] >= 1 =>
          /\ Has(state, "risk_report")
          /\ ~Has(state, "risk_report_raw") =>
                state["risk_report"] = <<[k \in JsonKeys |-> <<>>]>>
    /\ InSeq("metrics_agent", completed) => Has(state, "metrics_summary")

----------------------------------------------------------------------------
(* Properties of MetricsAgent (SpecMetrics) *)

MtRan == mt_pc \in {"done", "raised"}

\* tagged_items is a dict whose items is a list
MtItemsIsList ==
    /\ mt_tagged # NoValue /\ mt_tagged[1].kind = "dict"
    /\ mt_tagged[1].val # NoValue /\ mt_tagged[1].val[1].kind = "list"

MtItemList == mt_tagged[1].val[1].val

\* a record whose region is a non-empty string
HasRegion(e) ==
    e.kind = "dict" /\ e.val # NoValue /\ e.val[1].kind = "str" /\ e.val[1].val # <<>>

\* a record whose region is neither missing nor a string
RegionNotString(e) == e.kind = "dict" /\ e.val # NoValue /\ e.val[1].kind # "str"

\* the bucket an element belongs to
RefRegion(e) ==
    IF HasRegion(e) THEN [i \in 1..Len(e.val[1].val) |-> LowerChar(e.val[1].val[i])]
    ELSE <<"u", "n", "k", "n", "o", "w", "n">>

RECURSIVE SumOver(_, _)
SumOver(f, keys) ==
    IF keys = {} THEN 0
    ELSE LET k == CHOOSE x \in keys : TRUE IN f[k] + SumOver(f, keys \ {k})

\* C16: metrics_summary is written with tagged_items_count the number of
\* items under tagged_items and items_by_region counting the items per
\* lower-cased region: regions differing only in case share a bucket and the
\* bucket counts sum to tagged_items_count.
C16_CountsByLowerCasedRegion ==
    (MtRan /\ MtItemsIsList /\ \A i \in 1..Len(MtItemList) : ~RegionNotString(MtItemList[i])) =>
        /\ mt_pc = "done"
        /\ mt_summary # NoValue
        /\ LET m == mt_summary[1]
           IN  /\ m.tagged_items_count = Len(MtItemList)
               /\ DOMAIN m.items_by_region =
                     {RefRegion(MtItemList[i]) : i \in 1..Len(MtItemList)}
               /\ \A r \in DOMAIN m.items_by_region :
                     m.items_by_region[r] =
                        Cardinality({i \in 1..Len(MtItemList) : RefRegion(MtItemList[i]) = r})
               /\ SumOver(m.items_by_region, DOMAIN m.items_by_region) = m.tagged_items_count

\* two items with regions "city" and "City" counted in the one bucket "city"
C16_Witness ==
    /\ mt_pc = "done"
    /\ MtItemsIsList
    /\ Len(MtItemList) = 2
    /\ HasRegion(MtItemList[1]) /\ HasRegion(MtItemList[2])
    /\ MtItemList[1] # MtItemList[2]
    /\ mt_summary # NoValue
    /\ mt_summary[1].tagged_items_count = 2
    /\ DOMAIN mt_summary[1].items_by_region = {<<"c", "i", "t", "y">>}
    /\ mt_summary[1].items_by_region[<<"c", "i", "t", "y">>] = 2

MtIssuesIsList ==
    /\ mt_risk # NoValue /\ mt_risk[1].kind = "dict"
    /\ mt_risk[1].val # NoValue /\ mt_risk[1].val[1].kind = "list"

\* C18: risk_issue_count is the number of entries of risk_report.issues when
\* risk_report is a dict whose issues is a list, and 0 when risk_report is
\* absent, is not a dict, has no issues or has issues that are not a list.
C18_IssueCount ==
    (mt_pc = "done" /\ mt_summary # NoValue) =>
        mt_summary[1].risk_issue_count =
            IF MtIssuesIsList THEN Len(mt_risk[1].val[1].val) ELSE 0

\* a report whose issues is a string, counted as 0 issues
C18_Witness ==
    /\ mt_pc = "done"
    /\ mt_risk = <<[kind |-> "dict", val |-> <<[kind |-> "str", val |-> <<"i">>]>>]>>
    /\ mt_summary # NoValue
    /\ mt_summary[1].risk_issue_count = 0

\* C19: the metrics stage never fails: whatever is stored under tagged_items
\* and risk_report it completes without raising and writes metrics_summary.
C19_NeverFails == MtRan => (mt_pc = "done" /\ mt_summary # NoValue)

----------------------------------------------------------------------------
(* Properties of run_arovi_once (SpecCli) *)

\* C20 as claimed: the briefing of run_arovi_once is briefing_revised
\* whenever that key is present, else briefing_draft when that key is
\* present, else the no-briefing message; never the draft while a revised
\* value is present, and never empty.
C20_RevisedWheneverPresent ==
    cli_pc = "printed" =>
        /\ cli_final.briefing_revised # NoValue =>
              cli_printed = cli_final.briefing_revised[1]
        /\ (cli_final.briefing_revised = NoValue /\ cli_final.briefing_draft # NoValue) =>
              cli_printed = cli_final.briefing_draft[1]
        /\ (cli_final.briefing_revised = NoValue /\ cli_final.briefing_draft = NoValue) =>
              cli_printed = <<"No final briefing found in state.">>
        /\ cli_printed # <<>>

\* C20: run_arovi_once prints briefing_revised when it holds non-empty text,
\* else briefing_draft when that holds non-empty text, else the no-briefing
\* message; a key holding the empty text counts as absent, and what is
\* printed is never empty.
C20_RevisedWhenNonEmpty ==
    cli_pc = "printed" =>
        LET revised == cli_final.briefing_revised
            draft   == cli_final.briefing_draft
            hasRevised == revised # NoValue /\ Len(revised[1]) > 0
            hasDraft   == draft # NoValue /\ Len(draft[1]) > 0
        IN  /\ hasRevised => cli_printed = revised[1]
            /\ (~hasRevised /\ hasDraft) => cli_printed = draft[1]
            /\ (~hasRevised /\ ~hasDraft) =>
                  cli_printed = <<"No final briefing found in state.">>
            /\ cli_printed # <<>>

\* draft and revised text both present: the revised text is printed
C20_Witness ==
    /\ cli_pc = "printed"
    /\ cli_final.briefing_draft = <<<<"draft">>>>
    /\ cli_final.briefing_revised = <<<<"revised", 2>>>>
    /\ cli_printed = <<"revised", 2>>

----------------------------------------------------------------------------
(* Properties of the front ends over a sequence of requests (SpecRequests) *)

RqState == rq_store[rq_sid][1]

\* the text under a key, empty when the key is absent
RqText(k) == IF DictGet(RqState, k) = NoValue THEN <<>> ELSE DictGet(RqState, k)[1].val

\* the web front end has selected the briefing of the current request
WebSelected == rq_front = "web" /\ (rq_pc = "selected" \/ (rq_pc = "idle" /\ rq_n > 0))

\* C21: the web front end returns briefing_revised when both briefing_draft
\* and briefing_revised hold non-empty text, the draft when only the draft
\* does, and the empty string when neither does, in which case the page
\* shows the "No briefing generated" warning.
C21_WebPrefersRevised ==
    WebSelected =>
        /\ (RqText("briefing_draft") # <<>> /\ RqText("briefing_revised") # <<>>) =>
              rq_briefing = RqText("briefing_revised")
        /\ (RqText("briefing_draft") # <<>> /\ RqText("briefing_revised") = <<>>) =>
              rq_briefing = RqText("briefing_draft")
        /\ (RqText("briefing_draft") = <<>> /\ RqText("briefing_revised") = <<>>) =>
              /\ rq_briefing = <<>>
              /\ rq_pc = "idle" => rq_shown = <<"No briefing generated.">>

----------------------------------------------------------------------------
(* Properties of the revise loop (Spec) *)

\* the check stage of iteration n (1-based) has been invoked and has not
\* answered yet
CheckRunning(n) ==
    /\ Current = "risk_loop_agent"
    /\ "risk_checker_agent" \in running
    /\ times_looped = n - 1

RedraftAnswered == "redraft_agent" \in writers["briefing_revised"]

\* C22 as claimed: the check stage of the first iteration finds no
\* briefing_revised and reads briefing_draft; in a later iteration it reads
\* the briefing_revised written by the revise stage of the iteration
\* before; and both briefing_draft and briefing_revised are in state at the
\* end of the run.
C22_LaterIterationReadsRevised ==
    /\ CheckRunning(1) => ~Has(state, "briefing_revised")
    /\ CheckRunning(2) => state["briefing_revised"] = <<<<"revised", 1>>>>
    /\ InSeq("risk_loop_agent", completed) =>
          (Has(state, "briefing_draft") /\ Has(state, "briefing_revised"))

\* C22: the check stage of the first iteration finds no briefing_revised and
\* reads briefing_draft; in the second iteration it reads the
\* briefing_revised of the first revise stage if that stage answered, and
\* still briefing_draft otherwise; a revise stage replaces briefing_revised
\* with its whole answer and leaves briefing_draft as the drafting stage
\* wrote it, so each key that was written is in state when the loop ends.
C22_ReviseLoopDataFlow ==
    /\ CheckRunning(1) =>
          /\ ~Has(state, "briefing_revised")
          /\ CurrentBriefing(state) = state["briefing_draft"]
    /\ CheckRunning(2) =>
          IF RedraftAnswered
          THEN CurrentBriefing(state) = <<<<"revised", 1>>>>
          ELSE /\ ~Has(state, "briefing_revised")
               /\ CurrentBriefing(state) = state["briefing_draft"]
    /\ Has(state, "briefing_draft") =>
          /\ state["briefing_draft"] = <<<<"draft">>>>
          /\ writers["briefing_draft"] = {"drafting_agent"}
    /\ Has(state, "briefing_revised") =>
          /\ state["briefing_revised"] \in {<<<<"revised", 1>>>>, <<<<"revised", 2>>>>}
          /\ writers["briefing_revised"] = {"redraft_agent"}
    /\ InSeq("risk_loop_agent", completed) =>
          /\ "drafting_agent" \in writers["briefing_draft"] => Has(state, "briefing_draft")
          /\ RedraftAnswered => Has(state, "briefing_revised")

\* the second check stage reads the text of the first revise stage while
\* the draft is still in state
C22_Witness ==
    /\ CheckRunning(2)
    /\ state["briefing_revised"] = <<<<"revised", 1>>>>
    /\ state["briefing_draft"] = <<<<"draft">>>>

----------------------------------------------------------------------------
(* Properties of the sessions of the two front ends (SpecRequests) *)

\* C23: a request of either front end starts on a session state that holds
\* none of the keys written by an earlier run.
C23_IsolatedState ==
    (rq_pc # "off" /\ rq_n >= 1) =>
        /\ rq_start = <<>>
        /\ \A i \in 1..Len(rq_start) : rq_start[i].key \notin rq_written

\* a later request has started after an earlier run wrote its keys
C23_Witness ==
    /\ rq_n >= 2
    /\ rq_pc = "created"
    /\ "briefing_draft" \in rq_written
    /\ rq_start = <<>>

----------------------------------------------------------------------------
(* Frame condition of the procedural stages (Spec) *)

\* the step of a procedural sub-agent of the workflow
ProceduralStep(agent) == Current = agent /\ stage' = stage + 1

\* the step of the parser inside the loop
LoopParserStep ==
    /\ Current = "risk_loop_agent"
    /\ loop_idx <= Len(LoopSubAgents)
    /\ LoopSubAgents[loop_idx] = "risk_report_parser_agent"
    /\ runs' # runs

\* the step writes at most the key target, and writes it as the whole value
OnlyTarget(target, value) ==
    /\ \A k \in Keys \ {target} : state'[k] = state[k]
    /\ state'[target] \in {state[target], <<value>>}

----------------------------------------------------------------------------
(* Structured keys at the start of their consumers (Spec) *)

\* a stage of the sequential chain has been invoked
StageRunning(agent) == Current = agent /\ agent \in running

\* the revise stage of some iteration has been invoked
RedraftRunning == Current = "risk_loop_agent" /\ "redraft_agent" \in running

\* the metrics stage is about to run
MetricsDue == Current = "metrics_agent"

\* C25: when a stage that consumes a structured key begins, that key holds
\* the parse-with-default of the current raw key: tagged_items for trend
\* analysis and drafting, trend_notes for drafting, risk_report for the
\* revise stage of each iteration and for the metrics stage.
C25_StructuredKeyIsParseOfRaw ==
    /\ (StageRunning("trend_agent") \/ StageRunning("drafting_agent")) =>
          state["tagged_items"] = <<TaggedItemsData(state)>>
    /\ StageRunning("drafting_agent") =>
          state["trend_notes"] = <<TrendNotesData(state)>>
    /\ (RedraftRunning \/ MetricsDue) =>
          state["risk_report"] = <<RiskReportData(state)>>

----------------------------------------------------------------------------
(* The result record of _filter_and_dedupe_items_impl (SpecDedupe) *)

\* q consists of the elements of t at some set of positions, in t's order
IsSubsequence(q, t) == \E keep \in SUBSET (1..Len(t)) : q = KeepFrom(t, 1, keep)

\* C26: filtered_items is a subsequence of the input, in the input's order and
\* of unchanged records; filtered_count is its length, original_count the
\* length of the input, and filtered_count <= original_count; every input
\* item that passes the validity checks has a retained item with the same
\* case-insensitive (region, title) key.
C26_ResultRecord ==
    dd_pc = "done" =>
        /\ IsSubsequence(dd_res.filtered_items, dd_items)
        /\ dd_res.filtered_count = Len(dd_res.filtered_items)
        /\ dd_res.original_count = Len(dd_items)
        /\ dd_res.filtered_count <= dd_res.original_count
        /\ \A i \in 1..Len(dd_items) :
              RefValid(dd_items[i], dd_min) =>
                  \E j \in 1..Len(dd_res.filtered_items) :
                      RefKey(dd_res.filtered_items[j]) = RefKey(dd_items[i])

\* two valid inputs with different keys, both retained in the input's order
C26_Witness ==
    /\ dd_pc = "done"
    /\ Len(dd_items) = 2
    /\ RefValid(dd_items[1], dd_min) /\ RefValid(dd_items[2], dd_min)
    /\ RefKey(dd_items[1]) # RefKey(dd_items[2])
    /\ dd_res.filtered_items = dd_items
    /\ dd_res.filtered_count = 2

----------------------------------------------------------------------------
(* The last revision is never checked (Spec) *)

LoopCompleted == InSeq("risk_loop_agent", completed)

\* the text of the revise stage of the last iteration
LastRevision == <<<<"revised", max_iterations>>>>

\* C27: inside the loop every revise stage follows the check and the parser
\* of its iteration, and the loop ends after a revise stage with no check
\* after it; the check stage never has the text of the last revise stage
\* before it, so when that stage produced output the final briefing_revised
\* was not examined, and the risk_report at the end of the run, the one
\* metrics counts issues of, is the parse of the check output that
\* preceded it.
C27_LastRevisionUnchecked ==
    /\ runs[3] <= runs[2] /\ runs[2] <= runs[1] /\ runs[1] <= runs[3] + 1
    /\ "risk_checker_agent" \in running => CurrentBriefing(state) # LastRevision
    /\ Has(state, "briefing_revised") /\ state["briefing_revised"] = LastRevision =>
          runs = <<max_iterations, max_iterations, max_iterations>>
    /\ LoopCompleted =>
          /\ runs = <<max_iterations, max_iterations, max_iterations>>
          /\ running = {}
          /\ Has(state, "risk_report") => state["risk_report"] = <<RiskReportData(state)>>
          /\ Has(state, "metrics_summary") =>
                state["metrics_summary"][1].risk_issue_count =
                    MetricsData(state).risk_issue_count

\* a completed run whose last revise stage produced output, with the report
\* of the check before it counted by metrics
C27_Witness ==
    /\ LoopCompleted
    /\ state["briefing_revised"] = LastRevision
    /\ Has(state, "risk_report")
    /\ Has(state, "metrics_summary")
    /\ state["metrics_summary"][1].risk_issue_count > 0

====
